---- MODULE Spec2Model ----
(***************************************************************************)
(* Model of app2.py: the upload / decode step, the three-group form and    *)
(* the "OK" build that assembles master_rows and its index lists, plus     *)
(* get_machine_rows as a function of (df, csv_name, display_name,          *)
(* threshold).                                                             *)
(*                                                                         *)
(* Text is modelled as a sequence of characters, one string per character. *)
(* Characters outside ASCII are written romanised, one element each:       *)
(* "mai" is the counter suffix of the payout cell, <<"dai","ban">> the     *)
(* unit-number column name, and so on.  The empty string is <<>>.          *)
(* Python's None is the empty sequence where a list is expected.           *)
(***************************************************************************)
EXTENDS Integers, Sequences, FiniteSets, TLC

(***************************************************************************)
(* Bounds of the explored inputs.                                          *)
(***************************************************************************)
MaxRows == 2        \* rows of an uploaded table (full application)
MaxFnRows == 3      \* rows of a table handed to get_machine_rows alone

NCols == 7
NTargets == 3
LastSepGroup == 2
DefaultThresh == 500

(***************************************************************************)
(* Characters and integers as text.                                        *)
(***************************************************************************)
DigitChars == <<"0", "1", "2", "3", "4", "5", "6", "7", "8", "9">>

IsDigit(c) == \E i \in 1..Len(DigitChars) : DigitChars[i] = c

DigitVal(c) == (CHOOSE i \in 1..Len(DigitChars) : DigitChars[i] = c) - 1

\* Code point of a character (only the characters of the explored inputs).
Ord(c) ==
  IF IsDigit(c) THEN 48 + DigitVal(c)
  ELSE CASE c = "+" -> 43
         [] c = "," -> 44
         [] c = "-" -> 45
         [] c = "A" -> 65
         [] c = "B" -> 66
         [] c = "G" -> 71
         [] OTHER   -> 255

\* Python's str < str: code point order, a proper prefix first.
RECURSIVE StrLess(_, _)
StrLess(s, t) ==
  IF t = <<>> THEN FALSE
  ELSE IF s = <<>> THEN TRUE
  ELSE IF Ord(Head(s)) # Ord(Head(t)) THEN Ord(Head(s)) < Ord(Head(t))
  ELSE StrLess(Tail(s), Tail(t))

\* Decimal digits of a natural number, no separators: str(n), n >= 0.
RECURSIVE NatStr(_)
NatStr(n) ==
  IF n < 10 THEN <<DigitChars[n + 1]>>
  ELSE NatStr(n \div 10) \o <<DigitChars[(n % 10) + 1]>>

\* str(int(x))
IntStr(n) == IF n < 0 THEN <<"-">> \o NatStr(-n) ELSE NatStr(n)

\* Digits of a natural number in groups of three joined by ",".
RECURSIVE NatComma(_)
NatComma(n) ==
  IF n < 1000 THEN NatStr(n)
  ELSE LET low == n % 1000
           pad == IF low < 10 THEN <<"0", "0">>
                  ELSE IF low < 100 THEN <<"0">> ELSE <<>>
       IN  NatComma(n \div 1000) \o <<",">> \o pad \o NatStr(low)

\* f"{n:,}"
IntComma(n) == IF n < 0 THEN <<"-">> \o NatComma(-n) ELSE NatComma(n)

\* Value of a string of digits (the integer pandas reads from the text).
RECURSIVE ParseNat(_)
ParseNat(s) ==
  IF s = <<>> THEN 0
  ELSE 10 * ParseNat(SubSeq(s, 1, Len(s) - 1)) + DigitVal(s[Len(s)])

IsNumericText(s) == s # <<>> /\ \A i \in 1..Len(s) : IsDigit(s[i])

(***************************************************************************)
(* The table.  A CSV row gives the model name, the unit number as written, *)
(* and the integer columns; the integer columns are well formed (no empty  *)
(* or non-numeric cell).                                                   *)
(***************************************************************************)
Text(c) == <<c>>

None == <<>>

ModelNames == {Text("A"), Text("B")}

CsvRow(m, u, d) ==
  [kishu |-> m, daiban |-> u, G |-> 9876, BB |-> 12, RB |-> 3, ART |-> 0,
   samai |-> d]

\* The rows of the table with the unit-number cells converted to integers.
RECURSIVE IntDaibanRows(_)
IntDaibanRows(t) ==
  IF t = <<>> THEN <<>>
  ELSE <<[Head(t) EXCEPT !.daiban = ParseNat(@)]>> \o IntDaibanRows(Tail(t))

\* pd.read_csv: the unit-number column is an integer column when every cell
\* of the whole column is a number, and a column of strings otherwise.
ReadCsv(f) ==
  LET num == \A i \in 1..Len(f.table) : IsNumericText(f.table[i].daiban)
  IN  [loaded |-> TRUE,
       hasCol |-> f.hasCol,
       intDaiban |-> num,
       rows |-> IF num THEN IntDaibanRows(f.table) ELSE f.table]

\* df before any read_csv has returned.
NoFrame == [loaded |-> FALSE, hasCol |-> FALSE, intDaiban |-> FALSE, rows |-> <<>>]

(***************************************************************************)
(* get_machine_rows                                                        *)
(***************************************************************************)
\* Variant of Keeps: the threshold itself is left out.
KeepsAbove(r, csv_name, threshold) == r.kishu = csv_name /\ r.samai > threshold

\* df[target_col] == csv_name, and m_df['samai'] >= threshold
Keeps(r, csv_name, threshold) == r.kishu = csv_name /\ r.samai >= threshold

\* The index labels i..Len(rows) of the rows that are kept, in row order.
RECURSIVE KeptFrom(_, _, _, _)
KeptFrom(d, csv_name, threshold, i) ==
  IF i > Len(d.rows) THEN <<>>
  ELSE (IF Keeps(d.rows[i], csv_name, threshold) THEN <<i>> ELSE <<>>)
       \o KeptFrom(d, csv_name, threshold, i + 1)

\* The frame before the sort: the index labels of the kept rows.
Kept(d, csv_name, threshold) == KeptFrom(d, csv_name, threshold, 1)

\* Order of two cells of the unit-number column.
DaibanLess(d, i, j) ==
  IF d.intDaiban THEN d.rows[i].daiban < d.rows[j].daiban
  ELSE StrLess(d.rows[i].daiban, d.rows[j].daiban)

Range(s) == {s[i] : i \in 1..Len(s)}

\* Variant of SortValues: the frame is left in row order.
SortValuesRowOrder(d, idx) == {idx}

\* .sort_values('daiban'): default kind 'quicksort', which is not a stable
\* sort; every ordering of the kept index labels with ascending keys is a
\* possible result.
SortValues(d, idx) ==
  {p \in [1..Len(idx) -> Range(idx)] :
     /\ \A a, b \in 1..Len(idx) : a # b => p[a] # p[b]
     /\ \A a \in 1..Len(idx) - 1 : ~DaibanLess(d, p[a + 1], p[a])}

BlankRow == << <<>>, <<>>, <<>>, <<>>, <<>>, <<>>, <<>> >>

HeaderRow ==
  << <<"dai", "ban">>, <<"ki", "shu", "mei">>, <<"ge", "-", "mu", "suu">>,
     <<"B", "I", "G">>, <<"R", "E", "G">>, <<"A", "T">>,
     <<"sa", "mai", "suu">> >>

\* str(row['daiban'])
DaibanStr(d, r) == IF d.intDaiban THEN IntStr(r.daiban) ELSE r.daiban

\* f"+{int(row['samai']):,}mai"
SamaiCell(n) == <<"+">> \o IntComma(n) \o <<"mai">>

\* f"{int(row['G']):,}G"
GameCell(n) == IntComma(n) \o <<"G">>

DataRow(d, r, display_name) ==
  << DaibanStr(d, r), display_name, GameCell(r.G),
     IntStr(r.BB), IntStr(r.RB), IntStr(r.ART), SamaiCell(r.samai) >>

\* for _, row in e_df.iterrows(): rows.append([...]), from position k on
RECURSIVE DataRows(_, _, _, _)
DataRows(d, e, display_name, k) ==
  IF k > Len(e) THEN <<>>
  ELSE <<DataRow(d, d.rows[e[k]], display_name)>> \o DataRows(d, e, display_name, k + 1)

\* The rows list built from the sorted frame e (a sequence of index labels).
BlockRows(d, e, display_name) ==
  <<BlankRow, HeaderRow>> \o DataRows(d, e, display_name, 1)

\* get_machine_rows(df, csv_name, display_name, threshold), e being the
\* result of the sort.
GetMachineRows(d, e, display_name) ==
  IF ~d.hasCol THEN None
  ELSE IF e = <<>> THEN None
  ELSE BlockRows(d, e, display_name)

\* The possible sorted frames e_df of one call.
SortedFrames(d, csv_name, threshold) ==
  IF ~d.hasCol THEN {<<>>} ELSE SortValues(d, Kept(d, csv_name, threshold))

(***************************************************************************)
(* State of one session.                                                   *)
(***************************************************************************)
VARIABLES
  pc,                 \* position of the script
  uploaded_file,      \* the uploaded byte stream (what each decoding gives)
  pos,                \* stream position: 0 at the start, 1 past it
  attempts,           \* the read_csv calls so far: encoding, stream position
  df,                 \* the loaded table
  all_machines,       \* distinct model names, first seen first
  targets,            \* the (csv_n, disp_n, thresh) of each group
  e_df,               \* per call of get_machine_rows: the sorted frame
  res,                \* per call of get_machine_rows: its return value
  master_rows,
  headline_indices,
  header_indices,
  separator_indices,
  machine_info,
  rendered            \* the table has been drawn (len(master_rows) > 1)

vars == <<pc, uploaded_file, pos, attempts, df, all_machines, targets, e_df,
          res, master_rows, headline_indices, header_indices,
          separator_indices, machine_info, rendered>>

loadVars == <<uploaded_file, pos, attempts, df, all_machines>>

buildVars == <<e_df, res, master_rows, headline_indices, header_indices,
               separator_indices, machine_info, rendered>>

SeqsUpTo(S, n) == UNION {[1..k -> S] : k \in 0..n}

(***************************************************************************)
(* Explored inputs of the application.                                     *)
(***************************************************************************)
AppDaiban == {<<"9">>, <<"1", "0">>}
AppSamai == {500}
AppRows == {CsvRow(m, u, s) : m \in ModelNames, u \in AppDaiban, s \in AppSamai}
AppTables == SeqsUpTo(AppRows, MaxRows)
Labels == {Text("X")}
Thresholds == {DefaultThresh, 9999}

\* A file: whether its bytes decode under each encoding, whether the table
\* has the model-name column, and the table.
Files ==
  {[cp932 |-> a, utf8 |-> b, hasCol |-> TRUE, table |-> t] :
     a \in BOOLEAN, b \in BOOLEAN, t \in AppTables}
  \cup {[cp932 |-> a, utf8 |-> b, hasCol |-> FALSE, table |-> <<>>] :
     a \in BOOLEAN, b \in BOOLEAN}

NoFile == [cp932 |-> FALSE, utf8 |-> FALSE, hasCol |-> FALSE, table |-> <<>>]

Group(c, l, t) == [csv_n |-> c, disp_n |-> l, thresh |-> t]

(***************************************************************************)
(* Upload handling                                                         *)
(***************************************************************************)
\* pd.read_csv(uploaded_file, encoding=enc) returns a table: the bytes
\* decode under enc and the stream is read from its start.
ReadOk(f, p, enc) == p = 0 /\ (IF enc = "cp932" THEN f.cp932 ELSE f.utf8)

\* df[col].unique().tolist()
RECURSIVE UniqueFrom(_, _, _)
UniqueFrom(rows, i, seen) ==
  IF i > Len(rows) THEN seen
  ELSE UniqueFrom(rows, i + 1,
                  IF rows[i].kishu \in Range(seen) THEN seen
                  ELSE Append(seen, rows[i].kishu))

Unique(d) == UniqueFrom(d.rows, 1, <<>>)

\* The widgets' first values: the first option, the label defaulting to it,
\* and value=500.
DefaultTargets(ms) ==
  LET first == IF ms = <<>> THEN None ELSE ms[1]
      g == Group(first, first, DefaultThresh)
  IN  <<g, g, g>>

NoBuild ==
  /\ e_df = <<>>
  /\ res = <<>>
  /\ master_rows = <<>>
  /\ headline_indices = <<>>
  /\ header_indices = <<>>
  /\ separator_indices = <<>>
  /\ machine_info = <<>>
  /\ rendered = FALSE

\* A run of the script without a click on OK builds nothing.
ResetBuild ==
  /\ e_df' = <<>>
  /\ res' = <<>>
  /\ master_rows' = <<>>
  /\ headline_indices' = <<>>
  /\ header_indices' = <<>>
  /\ separator_indices' = <<>>
  /\ machine_info' = <<>>
  /\ rendered' = FALSE

Init ==
  /\ pc = "no_file"
  /\ uploaded_file = NoFile
  /\ pos = 0
  /\ attempts = <<>>
  /\ df = NoFrame
  /\ all_machines = <<>>
  /\ targets = <<>>
  /\ NoBuild

\* The file is removed from the uploader: "if uploaded_file:" skips the rest.
RemoveFile ==
  /\ pc \in {"form", "built", "exception"}
  /\ pc' = "no_file"
  /\ uploaded_file' = NoFile
  /\ pos' = 0
  /\ attempts' = <<>>
  /\ df' = NoFrame
  /\ all_machines' = <<>>
  /\ targets' = <<>>
  /\ ResetBuild

\* st.file_uploader returns a file: the script runs with it.
Upload(f) ==
  /\ pc = "no_file"
  /\ pc' = "read_cp932"
  /\ uploaded_file' = f
  /\ pos' = 0
  /\ attempts' = <<>>
  /\ df' = NoFrame
  /\ all_machines' = <<>>
  /\ targets' = <<>>
  /\ ResetBuild

\* try: df = pd.read_csv(uploaded_file, encoding='cp932')
ReadCp932 ==
  /\ pc = "read_cp932"
  /\ attempts' = Append(attempts, [enc |-> "cp932", at |-> pos])
  /\ IF ReadOk(uploaded_file, pos, "cp932")
     THEN /\ df' = ReadCsv(uploaded_file)
          /\ pos' = 1
          /\ pc' = "unique"
     ELSE /\ df' = df
          /\ pos' \in {0, 1}
          /\ pc' = "seek"
  /\ UNCHANGED <<uploaded_file, all_machines, targets>>
  /\ UNCHANGED buildVars

\* Variant of Seek: the handler goes on without rewinding the stream.
SeekNoRewind ==
  /\ pc = "seek"
  /\ pos' = pos
  /\ pc' = "read_utf8"
  /\ UNCHANGED <<uploaded_file, attempts, df, all_machines, targets>>
  /\ UNCHANGED buildVars

\* except: uploaded_file.seek(0)
Seek ==
  /\ pc = "seek"
  /\ pos' = 0
  /\ pc' = "read_utf8"
  /\ UNCHANGED <<uploaded_file, attempts, df, all_machines, targets>>
  /\ UNCHANGED buildVars

\* df = pd.read_csv(uploaded_file, encoding='utf-8'); its exception ends the run.
ReadUtf8 ==
  /\ pc = "read_utf8"
  /\ attempts' = Append(attempts, [enc |-> "utf-8", at |-> pos])
  /\ IF ReadOk(uploaded_file, pos, "utf-8")
     THEN /\ df' = ReadCsv(uploaded_file)
          /\ pos' = 1
          /\ pc' = "unique"
     ELSE /\ df' = df
          /\ pos' = pos
          /\ pc' = "exception"
  /\ UNCHANGED <<uploaded_file, all_machines, targets>>
  /\ UNCHANGED buildVars

\* all_machines = df[col].unique().tolist() (KeyError without the column),
\* then the form with its first values.
ListMachines ==
  /\ pc = "unique"
  /\ IF df.hasCol
     THEN /\ all_machines' = Unique(df)
          /\ targets' = DefaultTargets(Unique(df))
          /\ pc' = "form"
     ELSE /\ all_machines' = all_machines
          /\ targets' = targets
          /\ pc' = "exception"
  /\ UNCHANGED <<uploaded_file, pos, attempts, df>>
  /\ UNCHANGED buildVars

(***************************************************************************)
(* The form: one widget changes, the script runs again without a build.    *)
(* After a build the script first starts over (Rerun below).               *)
(***************************************************************************)
FormRun(i, g) ==
  /\ pc = "form"
  /\ i \in 1..NTargets
  /\ targets' = [targets EXCEPT ![i] = g]
  /\ pc' = "form"
  /\ ResetBuild
  /\ UNCHANGED loadVars

\* st.selectbox: one of all_machines; the label's default follows it.
SelectCsv(i, m) ==
  /\ pc = "form"
  /\ m \in Range(all_machines)
  /\ FormRun(i, Group(m, m, targets[i].thresh))

\* st.text_input
InputDisp(i, l) ==
  /\ pc = "form"
  /\ FormRun(i, [targets[i] EXCEPT !.disp_n = l])

\* st.number_input: any integer, no lower bound
InputThresh(i, t) ==
  /\ pc = "form"
  /\ FormRun(i, [targets[i] EXCEPT !.thresh = t])

(***************************************************************************)
(* The build                                                               *)
(***************************************************************************)
\* Variant of BuildStart: the grid starts with no row at all.
BuildStartEmpty ==
  [master_rows |-> <<>>, headline_indices |-> <<>>,
   header_indices |-> <<>>, separator_indices |-> <<>>, machine_info |-> <<>>]

\* master_rows.append([""] * 7) before the loop
BuildStart ==
  [master_rows |-> <<BlankRow>>, headline_indices |-> <<>>,
   header_indices |-> <<>>, separator_indices |-> <<>>, machine_info |-> <<>>]

\* Variant of LoopBody: h_idx is read after master_rows.extend(res).
LoopBodyLateIndex(acc, i, r, disp_n) ==
  IF r # None
  THEN LET ext == acc.master_rows \o r
           h_idx == Len(ext)
           a1 == [master_rows |-> ext,
                  headline_indices |-> Append(acc.headline_indices, h_idx),
                  header_indices |-> Append(acc.header_indices, h_idx + 1),
                  separator_indices |-> acc.separator_indices,
                  machine_info |-> Append(acc.machine_info, disp_n)]
       IN  IF i < LastSepGroup
           THEN [a1 EXCEPT !.separator_indices = Append(@, Len(ext)),
                           !.master_rows = Append(ext, BlankRow)]
           ELSE a1
  ELSE acc

\* Variant of LoopBody: the separator's index is read after its row is appended.
LoopBodyLateSeparator(acc, i, r, disp_n) ==
  IF r # None
  THEN LET h_idx == Len(acc.master_rows)
           ext == acc.master_rows \o r
           a1 == [master_rows |-> ext,
                  headline_indices |-> Append(acc.headline_indices, h_idx),
                  header_indices |-> Append(acc.header_indices, h_idx + 1),
                  separator_indices |-> acc.separator_indices,
                  machine_info |-> Append(acc.machine_info, disp_n)]
       IN  IF i < LastSepGroup
           THEN [a1 EXCEPT !.separator_indices = Append(@, Len(ext) + 1),
                           !.master_rows = Append(ext, BlankRow)]
           ELSE a1
  ELSE acc

\* Body of the loop for group i (0, 1, 2) whose call returned r.
LoopBody(acc, i, r, disp_n) ==
  IF r # None
  THEN LET h_idx == Len(acc.master_rows)
           ext == acc.master_rows \o r
           a1 == [master_rows |-> ext,
                  headline_indices |-> Append(acc.headline_indices, h_idx),
                  header_indices |-> Append(acc.header_indices, h_idx + 1),
                  separator_indices |-> acc.separator_indices,
                  machine_info |-> Append(acc.machine_info, disp_n)]
       IN  IF i < LastSepGroup
           THEN [a1 EXCEPT !.separator_indices = Append(@, Len(ext)),
                           !.master_rows = Append(ext, BlankRow)]
           ELSE a1
  ELSE acc

\* Variant of Renders: any non-empty grid is drawn.
RendersNonEmpty(rows) == Len(rows) > 0

\* if len(master_rows) > 1: the table is drawn
Renders(rows) == Len(rows) > 1

\* The script starts over: the locals of the previous build are gone.
Rerun ==
  /\ pc = "built"
  /\ pc' = "form"
  /\ ResetBuild
  /\ UNCHANGED targets
  /\ UNCHANGED loadVars

\* One click on OK: for i, (csv_n, disp_n, thresh) in enumerate(targets),
\* the call and the loop body of each of the three groups in turn, then the
\* drawing.
ClickOK ==
  /\ pc = "form"
  /\ \E e1 \in SortedFrames(df, targets[1].csv_n, targets[1].thresh),
        e2 \in SortedFrames(df, targets[2].csv_n, targets[2].thresh),
        e3 \in SortedFrames(df, targets[3].csv_n, targets[3].thresh) :
     \E r1 \in {GetMachineRows(df, e1, targets[1].disp_n)},
        r2 \in {GetMachineRows(df, e2, targets[2].disp_n)},
        r3 \in {GetMachineRows(df, e3, targets[3].disp_n)} :
     \E a1 \in {LoopBody(BuildStart, 0, r1, targets[1].disp_n)} :
     \E a2 \in {LoopBody(a1, 1, r2, targets[2].disp_n)} :
     \E out \in {LoopBody(a2, 2, r3, targets[3].disp_n)} :
       /\ e_df' = <<e1, e2, e3>>
       /\ res' = <<r1, r2, r3>>
       /\ master_rows' = out.master_rows
       /\ headline_indices' = out.headline_indices
       /\ header_indices' = out.header_indices
       /\ separator_indices' = out.separator_indices
       /\ machine_info' = out.machine_info
       /\ rendered' = Renders(out.master_rows)
  /\ pc' = "built"
  /\ UNCHANGED targets
  /\ UNCHANGED loadVars

Next ==
  \/ \E f \in Files : Upload(f)
  \/ RemoveFile
  \/ ReadCp932
  \/ Seek
  \/ ReadUtf8
  \/ ListMachines
  \/ \E i \in 1..NTargets, m \in ModelNames : SelectCsv(i, m)
  \/ \E i \in 1..NTargets, l \in Labels : InputDisp(i, l)
  \/ \E i \in 1..NTargets, t \in Thresholds : InputThresh(i, t)
  \/ Rerun
  \/ ClickOK

Spec == Init /\ [][Next]_vars

(***************************************************************************)
(* get_machine_rows on its own: one call on explored arguments.            *)
(***************************************************************************)
FnDaiban == {<<"9">>, <<"1", "0">>, <<"A", "1">>}
FnSamai == {-50, 1234}
FnThresholds == {-100, DefaultThresh, 1234}
FnRows == {CsvRow(m, u, s) : m \in ModelNames, u \in FnDaiban, s \in FnSamai}
FnFiles ==
  {[cp932 |-> TRUE, utf8 |-> TRUE, hasCol |-> TRUE, table |-> t] :
     t \in SeqsUpTo(FnRows, MaxFnRows)}
  \cup {[cp932 |-> TRUE, utf8 |-> TRUE, hasCol |-> FALSE, table |-> <<>>]}

InitFn ==
  /\ pc = "fn_call"
  /\ uploaded_file \in FnFiles
  /\ pos = 1
  /\ attempts = <<[enc |-> "cp932", at |-> 0]>>
  /\ df = ReadCsv(uploaded_file)
  /\ all_machines = <<>>
  /\ targets \in {<<Group(c, l, t)>> : c \in ModelNames, l \in Labels, t \in FnThresholds}
  /\ NoBuild

CallGetMachineRows ==
  /\ pc = "fn_call"
  /\ \E e \in SortedFrames(df, targets[1].csv_n, targets[1].thresh) :
       /\ e_df' = <<e>>
       /\ res' = <<GetMachineRows(df, e, targets[1].disp_n)>>
  /\ pc' = "fn_return"
  /\ UNCHANGED <<targets, master_rows, headline_indices, header_indices,
                 separator_indices, machine_info, rendered>>
  /\ UNCHANGED loadVars

NextFn == CallGetMachineRows

SpecFn == InitFn /\ [][NextFn]_vars

(***************************************************************************)
(* The grid after a build.  Indices are those of the program (from 0).     *)
(***************************************************************************)
first_sep_idx == 0

Built == pc = "built"

Groups == 1..NTargets

Yielded(g) == res[g] # None

YieldedGroups == {g \in Groups : Yielded(g)}

\* The groups that returned rows, in the order of the form.
YieldSeq == SelectSeq(<<1, 2, 3>>, Yielded)

Max(a, b) == IF a >= b THEN a ELSE b

GridIndices == 0..(Len(master_rows) - 1)

RowAt(k) == master_rows[k + 1]

\* row is the data row of one kept record of group g
IsDataRowOf(row, g) ==
  \E k \in 1..Len(e_df[g]) :
    row = DataRow(df, df.rows[e_df[g][k]], targets[g].disp_n)

IsDataRow(row) == \E g \in YieldedGroups : IsDataRowOf(row, g)

\* The branch the drawing loop takes for row r.
Role(r) ==
  IF r = first_sep_idx THEN "first_sep"
  ELSE IF r \in Range(headline_indices) THEN "headline"
  ELSE IF r \in Range(header_indices) THEN "header"
  ELSE IF r \in Range(separator_indices) THEN "separator"
  ELSE "data"

(***************************************************************************)
(* Claims about the build                                                  *)
(***************************************************************************)

\* C1: after a build the number of separators (recorded indices, all of them
\* distinct rows) is max(N - 1, 0), N the number of groups that returned rows.
C1_SeparatorCount ==
  Built =>
    /\ Len(separator_indices) = Max(Cardinality(YieldedGroups) - 1, 0)
    /\ Cardinality(Range(separator_indices)) = Len(separator_indices)

\* C2: a group that returns nothing adds no row; every separator row comes
\* right after a data row and right before a title row; the last row of the
\* grid is not a separator.
C2_SkippedInvisible ==
  Built =>
    /\ Cardinality({k \in GridIndices : RowAt(k) \notin {BlankRow, HeaderRow}})
         = Len(e_df[1]) + Len(e_df[2]) + Len(e_df[3])
    /\ \A g \in Groups : ~Yielded(g) => e_df[g] = <<>>
    /\ \A s \in Range(separator_indices) :
         /\ s - 1 \in GridIndices
         /\ IsDataRow(RowAt(s - 1))
         /\ s + 1 \in Range(headline_indices)
    /\ master_rows # <<>> => (Len(master_rows) - 1) \notin Range(separator_indices)

\* C5: for the k-th group that returned rows, the k-th header index is the
\* k-th title index plus one, the rows there are the blank title row and the
\* header row, the group's data rows follow at once, the k-th label is the
\* group's, and the title indices increase.
C5_TitleHeaderPairing ==
  Built =>
    /\ Len(headline_indices) = Len(YieldSeq)
    /\ Len(header_indices) = Len(YieldSeq)
    /\ Len(machine_info) = Len(YieldSeq)
    /\ \A k \in 1..Len(YieldSeq) :
         LET g == YieldSeq[k]
             h == headline_indices[k]
         IN  /\ header_indices[k] = h + 1
             /\ h + 1 + Len(e_df[g]) \in GridIndices
             /\ RowAt(h) = BlankRow
             /\ RowAt(h + 1) = HeaderRow
             /\ \A j \in 1..Len(e_df[g]) :
                  RowAt(h + 1 + j) = DataRow(df, df.rows[e_df[g][j]], targets[g].disp_n)
             /\ machine_info[k] = targets[g].disp_n
    /\ \A k \in 1..(Len(YieldSeq) - 1) : headline_indices[k] < headline_indices[k + 1]

\* Reached: the first and third group returned rows, the second did not, and
\* their labels differ.
C5_Witness ==
  /\ Built
  /\ YieldSeq = <<1, 3>>
  /\ machine_info[1] # machine_info[2]
  /\ Len(e_df[3]) >= 2

\* C6 as stated: no group returned rows => the grid has no row, the index
\* lists are empty and nothing is drawn; drawn => some group returned rows.
C6_Original ==
  /\ (Built /\ YieldedGroups = {}) =>
       /\ master_rows = <<>>
       /\ headline_indices = <<>> /\ header_indices = <<>> /\ separator_indices = <<>>
       /\ ~rendered
  /\ rendered => YieldedGroups # {}

\* C6 amended: no group returned rows => the grid is the one leading blank
\* row, the index lists are empty and nothing is drawn; a build draws the
\* table exactly when some group returned rows.
C6_EmptyBuild ==
  /\ (Built /\ YieldedGroups = {}) =>
       /\ master_rows = <<BlankRow>>
       /\ headline_indices = <<>> /\ header_indices = <<>> /\ separator_indices = <<>>
       /\ machine_info = <<>>
  /\ Built => (rendered <=> YieldedGroups # {})
  /\ rendered => Built

\* Reached: a build on a table with rows in which no group returned rows.
C6_Witness == Built /\ YieldedGroups = {} /\ df.rows # <<>>

IndexSetsDisjoint ==
  /\ Range(headline_indices) \cap Range(header_indices) = {}
  /\ Range(headline_indices) \cap Range(separator_indices) = {}
  /\ Range(header_indices) \cap Range(separator_indices) = {}

IndexSetsValid ==
  (Range(headline_indices) \cup Range(header_indices) \cup Range(separator_indices))
    \subseteq GridIndices

\* C7 as stated: the three index sets are disjoint and within the grid, every
\* row in none of them is a data row of a kept record, every row has 7 cells.
C7_Original ==
  Built =>
    /\ IndexSetsDisjoint
    /\ IndexSetsValid
    /\ \A k \in GridIndices :
         k \notin (Range(headline_indices) \cup Range(header_indices)
                     \cup Range(separator_indices))
           => IsDataRow(RowAt(k)) /\ RowAt(k) # BlankRow
    /\ \A k \in GridIndices : Len(RowAt(k)) = NCols

\* C7 amended: row 0 is a blank row in none of the three sets (the drawing
\* loop takes it first, as first_sep_idx); the sets are disjoint and within
\* the grid; every other row in none of them is a data row of a kept record;
\* every row has 7 cells.
C7_RowRoles ==
  Built =>
    /\ IndexSetsDisjoint
    /\ IndexSetsValid
    /\ RowAt(first_sep_idx) = BlankRow
    /\ first_sep_idx \notin (Range(headline_indices) \cup Range(header_indices)
                               \cup Range(separator_indices))
    /\ \A k \in GridIndices :
         Role(k) = "data" => IsDataRow(RowAt(k)) /\ RowAt(k) # BlankRow
    /\ \A k \in GridIndices : Len(RowAt(k)) = NCols

\* Reached: a build with two separators and data rows.
C7_Witness ==
  /\ Built
  /\ Len(separator_indices) = 2
  /\ \E k \in GridIndices : Role(k) = "data"

\* C8 as stated: groups 1 and 2 both returned rows => the separator between
\* them is at the index equal to the length of group 1's block, group 1's
\* title row is at 0 and its header at 1.
C8_Original ==
  (Built /\ Yielded(1) /\ Yielded(2)) =>
    /\ separator_indices[1] = Len(res[1])
    /\ headline_indices[1] = 0
    /\ header_indices[1] = 1

\* C8 amended: groups 1 and 2 both returned rows => group 1's title row is at
\* index 1 and its header at 2 (after the leading blank row), the separator
\* between them is at 1 + the length of group 1's block, is a blank row, and
\* group 2's title row comes right after it.
C8_FirstSeparator ==
  (Built /\ Yielded(1) /\ Yielded(2)) =>
    /\ headline_indices[1] = 1
    /\ header_indices[1] = 2
    /\ separator_indices[1] = 1 + Len(res[1])
    /\ Len(res[1]) = 2 + Len(e_df[1])
    /\ RowAt(separator_indices[1]) = BlankRow
    /\ headline_indices[2] = separator_indices[1] + 1

\* Reached: groups 1 and 2 both returned rows, group 1 more than one.
C8_Witness == Built /\ Yielded(1) /\ Yielded(2) /\ Len(e_df[1]) >= 2

(***************************************************************************)
(* Claim about the upload handling                                         *)
(***************************************************************************)

\* C9: cp932 is tried first, from the start of the stream; utf-8 is tried
\* only after cp932 failed and only from the start of the stream again; after
\* a successful cp932 read there is no utf-8 read; there are at most the two
\* reads; and when utf-8 fails too the run ends with no table, no selection
\* list and no grid.
C9_DecodeOrder ==
  /\ Len(attempts) <= 2
  /\ Len(attempts) >= 1 =>
       attempts[1].enc = "cp932" /\ attempts[1].at = 0
  /\ Len(attempts) = 2 =>
       /\ attempts[2].enc = "utf-8"
       /\ attempts[2].at = 0
       /\ ~ReadOk(uploaded_file, attempts[1].at, "cp932")
  /\ pc = "read_cp932" => attempts = <<>>
  /\ pc \in {"seek", "read_utf8"} =>
       Len(attempts) = 1 /\ ~ReadOk(uploaded_file, attempts[1].at, "cp932")
  /\ pc = "read_utf8" => pos = 0
  /\ (Len(attempts) >= 1 /\ ReadOk(uploaded_file, attempts[1].at, "cp932")) =>
       Len(attempts) = 1 /\ pc \notin {"seek", "read_utf8"}
  /\ df.loaded =>
       /\ attempts # <<>>
       /\ ReadOk(uploaded_file, attempts[Len(attempts)].at, attempts[Len(attempts)].enc)
  /\ (Len(attempts) = 2 /\ ~ReadOk(uploaded_file, attempts[2].at, "utf-8")) =>
       /\ pc = "exception"
       /\ ~df.loaded
       /\ all_machines = <<>>
       /\ targets = <<>>
       /\ master_rows = <<>>
       /\ ~rendered

\* Reached: both reads were made and the second failed too.
C9_Witness ==
  /\ pc = "exception"
  /\ Len(attempts) = 2
  /\ ~uploaded_file.utf8

(***************************************************************************)
(* Claims about get_machine_rows                                           *)
(***************************************************************************)
FnDone == pc = "fn_return"

\* The unit number of the k-th row of the sorted frame, as written in the file.
DaibanText(k) == uploaded_file.table[e_df[1][k]].daiban

\* C3: a record is a data row of the block iff its model name equals csv_name
\* and its samai is >= threshold (equal included), each such record once; the
\* block has one data row per kept record.
C3_FilterIff ==
  FnDone =>
    LET e == e_df[1]
        t == targets[1]
    IN  /\ \A k \in 1..Len(e) : e[k] \in 1..Len(df.rows)
        /\ \A j \in 1..Len(df.rows) :
             Cardinality({k \in 1..Len(e) : e[k] = j})
               = IF /\ df.rows[j].kishu = t.csv_n
                    /\ (df.rows[j].samai > t.thresh \/ df.rows[j].samai = t.thresh)
                 THEN 1 ELSE 0
        /\ e = <<>> => res[1] = None
        /\ e # <<>> =>
             /\ Len(res[1]) = 2 + Len(e)
             /\ \A k \in 1..Len(e) :
                  res[1][2 + k] = DataRow(df, df.rows[e[k]], t.disp_n)

\* Reached: a record at the threshold is kept, one of the same model below it
\* is not, and one of another model at the threshold is not.
C3_Witness ==
  /\ FnDone
  /\ \E j \in 1..Len(df.rows) :
       /\ df.rows[j].samai = targets[1].thresh
       /\ j \in Range(e_df[1])
  /\ \E j \in 1..Len(df.rows) :
       /\ df.rows[j].kishu = targets[1].csv_n
       /\ df.rows[j].samai < targets[1].thresh
       /\ j \notin Range(e_df[1])
  /\ \E j \in 1..Len(df.rows) :
       /\ df.rows[j].kishu # targets[1].csv_n
       /\ df.rows[j].samai = targets[1].thresh
       /\ j \notin Range(e_df[1])

\* C4 as stated: the data rows are in non-decreasing order of unit number,
\* compared as numbers when every unit number of the kept records is a
\* number and as text otherwise, and records with equal unit numbers keep
\* their row order (two records that differ are not swapped).
C4_Original ==
  FnDone =>
    LET e == e_df[1]
        groupNumeric == \A k \in 1..Len(e) : IsNumericText(DaibanText(k))
    IN  /\ \A a \in 1..(Len(e) - 1) :
             IF groupNumeric
             THEN ParseNat(DaibanText(a)) <= ParseNat(DaibanText(a + 1))
             ELSE ~StrLess(DaibanText(a + 1), DaibanText(a))
        /\ \A a \in 1..(Len(e) - 1) :
             DaibanText(a) = DaibanText(a + 1) =>
               (e[a] < e[a + 1] \/ df.rows[e[a]] = df.rows[e[a + 1]])

\* C4 amended: the data rows are in non-decreasing order of unit number,
\* compared as numbers when every unit number of the whole table is a number
\* and as text otherwise (nothing is said of records with equal unit numbers).
C4_SortedByColumnType ==
  FnDone =>
    LET e == e_df[1]
        tbl == uploaded_file.table
        columnNumeric == \A i \in 1..Len(tbl) : IsNumericText(tbl[i].daiban)
    IN  \A a \in 1..(Len(e) - 1) :
          IF columnNumeric
          THEN ParseNat(DaibanText(a)) <= ParseNat(DaibanText(a + 1))
          ELSE ~StrLess(DaibanText(a + 1), DaibanText(a))

\* Reached: the kept unit numbers are all numbers, another row's is not, and
\* the block is in text order, which differs from the numeric order.
C4_Witness ==
  /\ FnDone
  /\ Len(e_df[1]) = 2
  /\ IsNumericText(DaibanText(1)) /\ IsNumericText(DaibanText(2))
  /\ ParseNat(DaibanText(1)) > ParseNat(DaibanText(2))
  /\ e_df[1][1] > e_df[1][2]

\* C10: the payout cell is the samai with an explicit sign, thousands
\* separators and the suffix (1234 gives +1,234mai), the play-count cell is
\* the count with separators and G (9876 gives 9,876G); the payout cell holds
\* exactly one sign character and it is the sign of the samai.
C10_PayoutSign ==
  (FnDone /\ res[1] # None) =>
    \A k \in 1..Len(e_df[1]) :
      LET r == df.rows[e_df[1][k]]
          payout == res[1][2 + k][7]
          games == res[1][2 + k][3]
      IN  /\ Cardinality({i \in 1..Len(payout) : payout[i] \in {"+", "-"}}) = 1
          /\ payout[1] = (IF r.samai < 0 THEN "-" ELSE "+")
          /\ payout[Len(payout)] = "mai"
          /\ r.samai = 1234 => payout = <<"+", "1", ",", "2", "3", "4", "mai">>
          /\ r.G = 9876 => games = <<"9", ",", "8", "7", "6", "G">>

====
